---- MODULE Spec2Model ----
(***************************************************************************)
(* The 100 Prisoners Riddle (Source.cpp): main() splits NUM_ITERATIONS     *)
(* trials over processor_count worker threads plus a remainder call of     *)
(* Run on the main thread, every Run shuffles its own boxes buffer per     *)
(* trial, evaluates RunRandom and RunMethod on it and counts the wins in   *)
(* its slots of the won array; main joins the threads and adds the slots   *)
(* up.                                                                     *)
(*                                                                         *)
(* Scaling.  The compile-time constants NUM_ITERATIONS, NUM_PRISONERS and  *)
(* USE_MULTI_THREADING and the value std::thread::hardware_concurrency()   *)
(* reports are chosen in Init from bounded sets and never change.          *)
(* std::mt19937_64 is library code: it is modelled by a small linear       *)
(* congruential generator, which keeps what the program relies on (the     *)
(* stream of draws is a deterministic function of the seed, and the state  *)
(* advances with every draw) and nothing else.                             *)
(***************************************************************************)
EXTENDS Integers, FiniteSets, Sequences, TLC

VARIABLES
    USE_MULTI_THREADING,   \* line 28, a compile-time constant
    NUM_ITERATIONS,        \* line 29, a compile-time constant
    NUM_PRISONERS,         \* line 30, a compile-time constant
    hardware_concurrency,  \* what std::thread::hardware_concurrency() returns
    pc,                    \* main(): the statement main is at
    processor_count,       \* main(): line 57, a 64-bit value as two 16-bit limbs
    stepSize,              \* main(): line 64
    i,                     \* main(): the loop index of lines 70, 76 and 80
    won,                   \* main(): the array of line 61, index -> count
    run,                   \* the Run invocations: id -> frame
    trial,                 \* history: trial index -> what its evaluation did
    writers                \* history: index of won -> the Run ids that stored to it

vars == <<USE_MULTI_THREADING, NUM_ITERATIONS, NUM_PRISONERS, hardware_concurrency,
          pc, processor_count, stepSize, i, won, run, trial, writers>>

config == <<USE_MULTI_THREADING, NUM_ITERATIONS, NUM_PRISONERS, hardware_concurrency>>

(***************************************************************************)
(* Bounds of the model.                                                    *)
(***************************************************************************)
MaxIterations == 4
MaxPrisoners == 4
MaxHardware == 5
MaxThreads == 3
MaxSeed == 40

(***************************************************************************)
(* Constants derived from NUM_PRISONERS (lines 32 and 33).                 *)
(***************************************************************************)
NUM_BOXES == NUM_PRISONERS

MAX_BOXES_TO_OPEN == NUM_PRISONERS \div 2

(***************************************************************************)
(* Unsigned arithmetic of line 57.  A value below 2^32 is the pair of its  *)
(* 16-bit limbs [hi, lo]: hardware_concurrency() - 2 is computed in        *)
(* unsigned int (modulo 2^32), converted to int64_t (the same value), and  *)
(* compared with 2 by std::max<int64_t>.                                   *)
(***************************************************************************)
Limb == 65536

U32(n) == [hi |-> (n \div Limb) % Limb, lo |-> n % Limb]

Sub32(a, b) ==
    LET borrow == IF a.lo < b.lo THEN 1 ELSE 0
    IN  [hi |-> (a.hi - b.hi - borrow) % Limb, lo |-> (a.lo - b.lo) % Limb]

Less64(a, b) == a.hi < b.hi \/ (a.hi = b.hi /\ a.lo < b.lo)

Max64(a, b) == IF Less64(a, b) THEN b ELSE a

ProcessorCount(multi, h) ==
    IF multi THEN Max64(Sub32(U32(h), U32(2)), U32(2)) ELSE U32(1)

\* processor_count as a number, once main has found it small enough to allocate
nthreads == processor_count.lo

(***************************************************************************)
(* std::mt19937_64 and std::shuffle.  The generator is a state s; every    *)
(* draw advances it.  std::shuffle swaps position k with a position drawn  *)
(* from 0..k, for k = 1 .. n-1, whatever the elements are.                 *)
(***************************************************************************)
mt19937_64(seed) == (seed * 7919 + 104729) % 65537

rng_next(s) == (s * 75 + 74) % 65537

Identity(n) == [k \in 0..(n - 1) |-> k]

\* mutant: a swap without a temporary
SwapNoTemporary(v, a, b) == [v EXCEPT ![a] = v[b], ![b] = v[b]]

Swap(v, a, b) == [v EXCEPT ![a] = v[b], ![b] = v[a]]

RECURSIVE ShuffleFrom(_, _, _)
ShuffleFrom(v, s, k) ==
    IF k >= NUM_BOXES
    THEN [vec |-> v, rng |-> s]
    ELSE LET s1 == rng_next(s)
         IN  ShuffleFrom(Swap(v, k, (s1 \div 16) % (k + 1)), s1, k + 1)

\* the element of a one-element set; used to pass an argument by value
Only(S) == CHOOSE x \in S : TRUE

shuffle(v, s) == Only({ShuffleFrom(a.v, a.s, 1) : a \in {[v |-> v, s |-> s]}})

RandomiseBoxes(boxes, seed) == shuffle(boxes, mt19937_64(seed)).vec

(***************************************************************************)
(* RunRandom, lines 131-158.  The result is everything the call leaves     *)
(* behind: the boxes buffer it was handed (a pointer to non-const data),   *)
(* the succeed counter (a reference), and, as history, the prisoners the   *)
(* outer loop evaluated and how many boxes each of them opened.            *)
(***************************************************************************)
RECURSIVE RandomOpen(_, _, _, _)
RandomOpen(boxes, search_order, prisoner, k) ==
    IF k < MAX_BOXES_TO_OPEN
    THEN IF boxes[search_order[k]] = prisoner
         THEN [i |-> MAX_BOXES_TO_OPEN + 1, opened |-> k + 1]
         ELSE RandomOpen(boxes, search_order, prisoner, k + 1)
    ELSE [i |-> k, opened |-> k]

RECURSIVE RunRandomFrom(_, _, _, _, _, _)
RunRandomFrom(boxes, succeed, search_order, rng, prisoner, visited) ==
    IF prisoner < NUM_PRISONERS
    THEN Only({
           LET r == RandomOpen(boxes, sh.vec, prisoner, 0)
               v == Append(visited, [prisoner |-> prisoner, opened |-> r.opened])
           IN  IF r.i # MAX_BOXES_TO_OPEN + 1
               THEN [boxes |-> boxes, succeed |-> succeed, visited |-> v]
               ELSE RunRandomFrom(boxes, succeed + 1, sh.vec, sh.rng, prisoner + 1, v)
           : sh \in {shuffle(search_order, rng)}})
    ELSE [boxes |-> boxes, succeed |-> succeed, visited |-> visited]

\* mutant: the first comparison is an assignment, boxes[search_order[0]] = prisoner
RunRandomAssigns(boxes, succeed, seed) ==
    LET first == shuffle(Identity(NUM_BOXES), mt19937_64(seed)).vec[0]
    IN  RunRandomFrom([boxes EXCEPT ![first] = 0], succeed, Identity(NUM_BOXES),
                      mt19937_64(seed), 0, <<>>)

RunRandom(boxes, succeed, seed) ==
    RunRandomFrom(boxes, succeed, Identity(NUM_BOXES), mt19937_64(seed), 0, <<>>)

(***************************************************************************)
(* RunMethod, lines 160-183.                                               *)
(***************************************************************************)
\* mutant: the loop test is i <= MAX_BOXES_TO_OPEN
RECURSIVE MethodOpenOneMore(_, _, _, _)
MethodOpenOneMore(boxes, prisoner, pos, k) ==
    IF k <= MAX_BOXES_TO_OPEN
    THEN IF boxes[pos] = prisoner
         THEN [i |-> MAX_BOXES_TO_OPEN + 1, opened |-> k + 1]
         ELSE MethodOpenOneMore(boxes, prisoner, boxes[pos], k + 1)
    ELSE [i |-> k, opened |-> k]

RECURSIVE MethodOpen(_, _, _, _)
MethodOpen(boxes, prisoner, pos, k) ==
    IF k < MAX_BOXES_TO_OPEN
    THEN IF boxes[pos] = prisoner
         THEN [i |-> MAX_BOXES_TO_OPEN + 1, opened |-> k + 1]
         ELSE MethodOpen(boxes, prisoner, boxes[pos], k + 1)
    ELSE [i |-> k, opened |-> k]

RECURSIVE RunMethodFrom(_, _, _, _)
RunMethodFrom(boxes, succeed, prisoner, visited) ==
    IF prisoner < NUM_PRISONERS
    THEN LET r == MethodOpen(boxes, prisoner, prisoner, 0)
             v == Append(visited, [prisoner |-> prisoner, opened |-> r.opened])
         IN  IF r.i # MAX_BOXES_TO_OPEN + 1
             THEN [boxes |-> boxes, succeed |-> succeed, visited |-> v]
             ELSE RunMethodFrom(boxes, succeed + 1, prisoner + 1, v)
    ELSE [boxes |-> boxes, succeed |-> succeed, visited |-> visited]

\* mutant: a failing prisoner does not end the loop (continue for return)
RECURSIVE RunMethodNoReturn(_, _, _, _)
RunMethodNoReturn(boxes, succeed, prisoner, visited) ==
    IF prisoner < NUM_PRISONERS
    THEN LET r == MethodOpen(boxes, prisoner, prisoner, 0)
             v == Append(visited, [prisoner |-> prisoner, opened |-> r.opened])
         IN  IF r.i # MAX_BOXES_TO_OPEN + 1
             THEN RunMethodNoReturn(boxes, succeed, prisoner + 1, v)
             ELSE RunMethodNoReturn(boxes, succeed + 1, prisoner + 1, v)
    ELSE [boxes |-> boxes, succeed |-> succeed, visited |-> visited]

\* mutant of RunMethod
RunMethodContinue(boxes, succeed) == RunMethodNoReturn(boxes, succeed, 0, <<>>)

RunMethod(boxes, succeed) == RunMethodFrom(boxes, succeed, 0, <<>>)

(***************************************************************************)
(* Run, lines 103-123.  A frame is one invocation of Run: its arguments    *)
(* (startVal, endVal, and won as the index of the element the pointer      *)
(* addresses), its locals, and the line it is at.  tmp is the value        *)
(* won[k]++ has loaded and not yet stored: the increment is a plain        *)
(* read-modify-write of a uint64_t, and two invocations that increment the *)
(* same element race.  last, rand_visited and method_visited are history:  *)
(* the trial index the invocation evaluated last (-1: none yet) and the    *)
(* prisoners each strategy evaluated in it.                                *)
(***************************************************************************)
NoFrame ==
    [line |-> "idle", startVal |-> 0, endVal |-> 0, won |-> 0, it |-> 0,
     boxes |-> <<>>, succeeded_rand |-> 0, succeeded_method |-> 0, tmp |-> 0,
     last |-> -1,
     rand_visited |-> <<>>, method_visited |-> <<>>]

\* the call Run(startVal, endVal, &won[k]) up to the loop head: lines 105-109
Frame(startVal, endVal, k) ==
    [NoFrame EXCEPT !.line = "for", !.startVal = startVal, !.endVal = endVal,
                    !.won = k, !.it = startVal, !.boxes = Identity(NUM_BOXES)]

\* a thread runs from its spawn on; main's own call runs while main is in it
Running(r) == r < nthreads \/ pc = "Run"

\* invocation r is running and at line l
At(r, l) == Running(r) /\ run[r].line = l

\* the history of one evaluation of trial t by invocation r: the permutation
\* RandomiseBoxes made, the buffer RunMethod was handed after RunRandom, and
\* whether each strategy won
Log(t, r, boxes, rr, rm) ==
    LET entry == [evals |-> 1, by |-> {r}, boxes |-> boxes, method_boxes |-> rr.boxes,
                  rand |-> (rr.succeed = NUM_PRISONERS),
                  method |-> (rm.succeed = NUM_PRISONERS)]
    IN  IF t \in DOMAIN trial
        THEN [trial EXCEPT ![t] = [entry EXCEPT !.evals = trial[t].evals + 1,
                                                !.by = trial[t].by \cup {r}]]
        ELSE (t :> entry) @@ trial

\* the end of the loop body: it++ (line 109)
NextIteration(f) == [f EXCEPT !.line = "for", !.it = @ + 1]

\* line 121, from its test on: to the increment of won[1], or to the next iteration
Line121(f) ==
    IF f.succeeded_method = NUM_PRISONERS
    THEN [f EXCEPT !.line = "inc_method"]
    ELSE NextIteration(f)

\* line 120, from its test on: to the increment of won[0], or on to line 121
Line120(f) ==
    IF f.succeeded_rand = NUM_PRISONERS
    THEN [f EXCEPT !.line = "inc_rand"]
    ELSE Line121(f)

\* lines 109-121 up to the first access to the won array: the loop test,
\* RandomiseBoxes(boxes, it), the two locals, RunRandom, RunMethod and the
\* tests of lines 120 and 121; all of it is local to the invocation
Iteration(r) ==
    /\ At(r, "for")
    /\ IF run[r].it < run[r].endVal
       THEN \E b \in {RandomiseBoxes(run[r].boxes, run[r].it)} :
            \E rr \in {RunRandom(b, 0, run[r].it)} :
            \E rm \in {RunMethod(rr.boxes, 0)} :
                /\ run' = [run EXCEPT ![r] =
                               Line120([@ EXCEPT !.boxes = rm.boxes,
                                                 !.last = run[r].it,
                                                 !.succeeded_rand = rr.succeed,
                                                 !.succeeded_method = rm.succeed,
                                                 !.rand_visited = rr.visited,
                                                 !.method_visited = rm.visited])]
                /\ trial' = Log(run[r].it, r, b, rr, rm)
       ELSE /\ run' = [run EXCEPT ![r] = [@ EXCEPT !.line = "returned"]]
            /\ UNCHANGED trial
    /\ UNCHANGED <<config, pc, processor_count, stepSize, i, won, writers>>

\* line 120: the load of won[0]++
LoadRand(r) ==
    /\ At(r, "inc_rand")
    /\ run' = [run EXCEPT ![r] = [@ EXCEPT !.line = "store_rand",
                                           !.tmp = won[run[r].won]]]
    /\ UNCHANGED <<config, pc, processor_count, stepSize, i, won, trial, writers>>

\* line 120: the store of won[0]++, and the test of line 121
StoreRand(r) ==
    /\ At(r, "store_rand")
    /\ won' = [won EXCEPT ![run[r].won] = run[r].tmp + 1]
    /\ writers' = [writers EXCEPT ![run[r].won] = @ \cup {r}]
    /\ run' = [run EXCEPT ![r] = Line121(@)]
    /\ UNCHANGED <<config, pc, processor_count, stepSize, i, trial>>

\* line 121: the load of won[1]++
LoadMethod(r) ==
    /\ At(r, "inc_method")
    /\ run' = [run EXCEPT ![r] = [@ EXCEPT !.line = "store_method",
                                           !.tmp = won[run[r].won + 1]]]
    /\ UNCHANGED <<config, pc, processor_count, stepSize, i, won, trial, writers>>

\* line 121: the store of won[1]++, and it++
StoreMethod(r) ==
    /\ At(r, "store_method")
    /\ won' = [won EXCEPT ![run[r].won + 1] = run[r].tmp + 1]
    /\ writers' = [writers EXCEPT ![run[r].won + 1] = @ \cup {r}]
    /\ run' = [run EXCEPT ![r] = NextIteration(@)]
    /\ UNCHANGED <<config, pc, processor_count, stepSize, i, trial>>

Run(r) ==
    \/ Iteration(r)
    \/ LoadRand(r)
    \/ StoreRand(r)
    \/ LoadMethod(r)
    \/ StoreMethod(r)

(***************************************************************************)
(* main, lines 43-101.                                                     *)
(***************************************************************************)
Init ==
    /\ USE_MULTI_THREADING \in BOOLEAN
    /\ NUM_ITERATIONS \in 0..MaxIterations
    /\ NUM_PRISONERS \in 1..MaxPrisoners
    /\ hardware_concurrency \in 0..MaxHardware
    /\ pc = "main"
    /\ processor_count = U32(0)
    /\ stepSize = 0
    /\ i = 0
    /\ won = <<>>
    /\ run = <<>>
    /\ trial = <<>>
    /\ writers = <<>>

\* line 57
Initialize ==
    /\ pc = "main"
    /\ processor_count' = ProcessorCount(USE_MULTI_THREADING, hardware_concurrency)
    /\ pc' = "new"
    /\ UNCHANGED <<config, stepSize, i, won, run, trial, writers>>

WonSize(n) == (n + 1) * 2

StepSize(iterations, n) == iterations \div n

\* lines 59-68: the two arrays and stepSize.  An array of more than MaxThreads
\* threads is beyond the model.
Allocate ==
    /\ pc = "new"
    /\ processor_count.hi = 0
    /\ nthreads <= MaxThreads
    /\ won' = [k \in 0..(WonSize(nthreads) - 1) |-> 0]
    /\ writers' = [k \in 0..(WonSize(nthreads) - 1) |-> {}]
    /\ run' = [r \in 0..nthreads |-> NoFrame]
    /\ stepSize' = StepSize(NUM_ITERATIONS, nthreads)
    /\ i' = 0
    /\ pc' = "spawn"
    /\ UNCHANGED <<config, processor_count, trial>>

ThreadSlot(k) == k * 2

RemainderSlot(n) == n

\* lines 70-71
Spawn ==
    /\ pc = "spawn"
    /\ i < nthreads
    /\ run' = [run EXCEPT ![i] = Frame(stepSize * i, stepSize * (i + 1), ThreadSlot(i))]
    /\ i' = i + 1
    /\ UNCHANGED <<config, pc, processor_count, stepSize, won, trial, writers>>

\* mutant: the remainder starts at the last thread's range
RemainderStartLastThread(step, n) == step * (n - 1)

RemainderStart(step, n) == step * n

\* line 74: main calls Run itself; the frame's id is processor_count
CallRun ==
    /\ pc = "spawn"
    /\ i >= nthreads
    /\ run' = [run EXCEPT ![nthreads] =
                   Frame(RemainderStart(stepSize, nthreads), NUM_ITERATIONS,
                         RemainderSlot(nthreads))]
    /\ pc' = "Run"
    /\ UNCHANGED <<config, processor_count, stepSize, i, won, trial, writers>>

\* line 74 returns; line 76 starts
Return ==
    /\ pc = "Run"
    /\ run[nthreads].line = "returned"
    /\ pc' = "join"
    /\ i' = 0
    /\ UNCHANGED <<config, processor_count, stepSize, won, run, trial, writers>>

\* mutant: join returns at once (a detached thread)
JoinableAtOnce(f) == TRUE

Joinable(f) == f.line = "returned"

\* lines 76-77: threads[i].join() blocks until thread i has returned from Run
Join ==
    /\ pc = "join"
    /\ IF i < nthreads
       THEN /\ Joinable(run[i])
            /\ i' = i + 1
            /\ pc' = pc
       ELSE /\ i' = 2
            /\ pc' = "merge"
    /\ UNCHANGED <<config, processor_count, stepSize, won, run, trial, writers>>

\* lines 80-84
Merge ==
    /\ pc = "merge"
    /\ IF i < WonSize(nthreads)
       THEN /\ won' = [won EXCEPT ![0] = @ + won[i], ![1] = @ + won[i + 1]]
            /\ i' = i + 2
            /\ pc' = pc
       ELSE /\ won' = won
            /\ i' = i
            /\ pc' = "done"
    /\ UNCHANGED <<config, processor_count, stepSize, run, trial, writers>>

Main == Initialize \/ Allocate \/ Spawn \/ CallRun \/ Return \/ Join \/ Merge

Worker ==
    \/ \E r \in DOMAIN run : Iteration(r)
    \/ \E r \in DOMAIN run : LoadRand(r)
    \/ \E r \in DOMAIN run : StoreRand(r)
    \/ \E r \in DOMAIN run : LoadMethod(r)
    \/ \E r \in DOMAIN run : StoreMethod(r)

Next == Main \/ Worker

Spec == Init /\ [][Next]_vars

\* The threads are scheduled by the operating system and main is never
\* suspended for ever: as long as some thread can take a step, one is taken.
FairSpec == Spec /\ WF_vars(Next)

(***************************************************************************)
(* One iteration of Run's loop on its own: a worker at the loop head with  *)
(* any bijection in its buffer and any trial index below the bound.        *)
(***************************************************************************)
Bijections(n) ==
    {f \in [0..(n - 1) -> 0..(n - 1)] : \A a, b \in 0..(n - 1) : f[a] = f[b] => a = b}

InitTrial ==
    /\ USE_MULTI_THREADING = FALSE
    /\ NUM_ITERATIONS = MaxSeed + 1
    /\ NUM_PRISONERS \in 1..MaxPrisoners
    /\ hardware_concurrency = 1
    /\ pc = "Run"
    /\ processor_count = U32(0)
    /\ stepSize = 0
    /\ i = 0
    /\ won = [k \in 0..1 |-> 0]
    /\ writers = [k \in 0..1 |-> {}]
    /\ trial = <<>>
    /\ \E b \in Bijections(NUM_PRISONERS), t \in 0..MaxSeed :
           run = (0 :> [Frame(t, t + 1, 0) EXCEPT !.boxes = b])

SpecTrial == InitTrial /\ [][Worker]_vars

(***************************************************************************)
(* What the strategies are meant to compute, stated without their loops.   *)
(***************************************************************************)
Prisoners == 0..(NUM_PRISONERS - 1)

Min(S) == CHOOSE x \in S : \A y \in S : x <= y

RECURSIVE Iterate(_, _, _)
Iterate(f, x, n) == IF n = 0 THEN x ELSE Iterate(f, f[x], n - 1)

\* the length of the cycle of the permutation f that p lies on
CycleLength(f, p) == Min({n \in 1..NUM_BOXES : Iterate(f, p, n) = p})

\* the search order of the given prisoner: the identity shuffled prisoner + 1
\* times by one generator seeded once
RECURSIVE SearchOrder(_, _)
SearchOrder(seed, prisoner) ==
    IF prisoner = 0
    THEN shuffle(Identity(NUM_BOXES), mt19937_64(seed))
    ELSE LET before == SearchOrder(seed, prisoner - 1)
         IN  shuffle(before.vec, before.rng)

FindsRandom(boxes, seed, p) ==
    \E k \in 0..(MAX_BOXES_TO_OPEN - 1) : boxes[SearchOrder(seed, p).vec[k]] = p

FindsMethod(boxes, p) == CycleLength(boxes, p) <= MAX_BOXES_TO_OPEN

\* the first prisoner of a set of failing prisoners, NUM_PRISONERS if none fails
FirstFailing(failing) == IF failing = {} THEN NUM_PRISONERS ELSE Min(failing)

\* the prisoners a strategy evaluates when first is the first to fail
EvaluatedUpTo(visited, first) ==
    /\ Len(visited) = (IF first = NUM_PRISONERS THEN NUM_PRISONERS ELSE first + 1)
    /\ \A k \in 1..Len(visited) : visited[k].prisoner = k - 1

IsBijection(boxes) ==
    /\ DOMAIN boxes = 0..(NUM_BOXES - 1)
    /\ \A a \in DOMAIN boxes : boxes[a] \in 0..(NUM_BOXES - 1)
    /\ \A a, b \in DOMAIN boxes : boxes[a] = boxes[b] => a = b

\* invocation r has evaluated a trial: its frame holds what both strategies
\* of trial run[r].last returned
Evaluated(r) == run[r].last >= 0

\* the buffer RunMethod was handed in that trial
Handed(r) == trial[run[r].last].method_boxes

Started(r) == run[r].line # "idle"

\* every invocation of Run has been made
AllStarted == pc \in {"Run", "join", "merge", "done"}

Count(which) == Cardinality({t \in DOMAIN trial : trial[t][which]})

(***************************************************************************)
(* C1.  No two invocations of Run ever increment the same element of the   *)
(* won array: every element has at most one invocation storing to it.      *)
(***************************************************************************)
C1_DisjointCounters == \A k \in DOMAIN writers : Cardinality(writers[k]) <= 1

(***************************************************************************)
(* C2.  When main has added the counters up, won[0] is the number of       *)
(* trials the random strategy won and won[1] the number of trials the      *)
(* method won.                                                             *)
(***************************************************************************)
C2_TotalsAreWins ==
    pc = "done" => won[0] = Count("rand") /\ won[1] = Count("method")

(***************************************************************************)
(* C3.  The ranges of the threads and of the remainder call are            *)
(* contiguous, start at 0 and end at NUM_ITERATIONS, so they are disjoint  *)
(* and cover [0, NUM_ITERATIONS); every trial index is evaluated at most   *)
(* once, by the one invocation whose range holds it, and at the end every  *)
(* index of [0, NUM_ITERATIONS) has been evaluated exactly once.           *)
(***************************************************************************)
C3_RangesPartition ==
    /\ AllStarted =>
          /\ run[0].startVal = 0
          /\ run[nthreads].endVal = NUM_ITERATIONS
          /\ \A r \in 0..nthreads : run[r].startVal <= run[r].endVal
          /\ \A r \in 0..(nthreads - 1) : run[r].endVal = run[r + 1].startVal
          /\ \A r \in 0..(nthreads - 1) :
                 /\ run[r].startVal = stepSize * r
                 /\ run[r].endVal = stepSize * (r + 1)
    /\ \A t \in DOMAIN trial :
          /\ t \in 0..(NUM_ITERATIONS - 1)
          /\ trial[t].evals = 1
          /\ \E r \in DOMAIN run :
                 trial[t].by = {r} /\ run[r].startVal <= t /\ t < run[r].endVal
    /\ pc = "done" => DOMAIN trial = 0..(NUM_ITERATIONS - 1)

\* the run is over, the iterations did not divide evenly, and both a thread
\* and the remainder call evaluated trials
C3_Witness ==
    /\ pc = "done"
    /\ nthreads = 3
    /\ NUM_ITERATIONS = 4
    /\ \E t \in DOMAIN trial : trial[t].by = {nthreads}
    /\ \E t \in DOMAIN trial : trial[t].by = {1}

(***************************************************************************)
(* C4.  RunMethod ends with succeed = NUM_PRISONERS exactly when every     *)
(* cycle of the permutation has length at most MAX_BOXES_TO_OPEN, and each *)
(* prisoner it evaluates opens the boxes of their own cycle, starting at   *)
(* their own number: as many as the cycle is long, and never more than     *)
(* MAX_BOXES_TO_OPEN.                                                      *)
(***************************************************************************)
C4_MethodIsCycleBound ==
    \A r \in DOMAIN run : Evaluated(r) =>
        /\ (run[r].succeeded_method = NUM_PRISONERS) <=>
               (\A p \in Prisoners : CycleLength(Handed(r), p) <= MAX_BOXES_TO_OPEN)
        /\ \A k \in 1..Len(run[r].method_visited) :
               LET v == run[r].method_visited[k]
                   c == CycleLength(Handed(r), v.prisoner)
               IN  v.opened = (IF c <= MAX_BOXES_TO_OPEN THEN c ELSE MAX_BOXES_TO_OPEN)

\* four prisoners, the method won, and the permutation has a cycle of length 2
C4_Witness ==
    /\ NUM_PRISONERS = 4
    /\ Evaluated(0)
    /\ run[0].succeeded_method = 4
    /\ \E p \in Prisoners : CycleLength(Handed(0), p) = 2

(***************************************************************************)
(* C5.  The permutation a trial is evaluated on is made from the seed t    *)
(* alone: it is the one a worker whose range starts at t gets, the shuffle *)
(* of seed t applied to the freshly made buffer.                           *)
(***************************************************************************)
C5_PermutationOfSeedAlone ==
    \A t \in DOMAIN trial : trial[t].boxes = RandomiseBoxes(Identity(NUM_BOXES), t)

(***************************************************************************)
(* C6.  The boxes buffer of every invocation of Run is a bijection on      *)
(* [0, NUM_PRISONERS) before and after every call of RandomiseBoxes.       *)
(***************************************************************************)
C6_BoxesBijection ==
    /\ \A r \in DOMAIN run : Started(r) => IsBijection(run[r].boxes)
    /\ \A t \in DOMAIN trial : IsBijection(trial[t].boxes)

\* RandomiseBoxes has been called with the largest seed and moved something
C6_Witness ==
    /\ NUM_PRISONERS = MaxPrisoners
    /\ Evaluated(0)
    /\ run[0].last = MaxSeed
    /\ trial[MaxSeed].boxes # Identity(NUM_BOXES)

\* a step taken once the merge has started leaves every invocation of Run as it is
QuietAfterMerge == pc \in {"merge", "done"} => (run' = run /\ writers' = writers)

(***************************************************************************)
(* C7.  The merge starts only when every invocation of Run has returned,   *)
(* no invocation changes or increments anything once it has started, and   *)
(* once the arrays are allocated the program reaches the end of main.      *)
(***************************************************************************)
C7_MergeAfterJoin ==
    /\ [](pc \in {"merge", "done"} => \A r \in DOMAIN run : run[r].line = "returned")
    /\ [][QuietAfterMerge]_vars
    /\ (pc = "spawn") ~> (pc = "done")

\* the program has ended after three threads and a remainder call counted wins
C7_Witness ==
    /\ pc = "done"
    /\ nthreads = 3
    /\ \E k \in DOMAIN writers : writers[k] # {}
    /\ \E t \in DOMAIN trial : trial[t].by = {nthreads}

(***************************************************************************)
(* C8.  In RunRandom and in RunMethod the prisoners are evaluated in the   *)
(* order 0, 1, ... up to and including the first who does not find their   *)
(* number, and nobody after; succeed is the index of that prisoner, it is  *)
(* NUM_PRISONERS when nobody fails, and it never exceeds NUM_PRISONERS.    *)
(***************************************************************************)
C8_ShortCircuit ==
    \A r \in DOMAIN run : Evaluated(r) =>
        LET failRandom == {p \in Prisoners :
                              ~FindsRandom(trial[run[r].last].boxes, run[r].last, p)}
            failMethod == {p \in Prisoners : ~FindsMethod(Handed(r), p)}
        IN  /\ run[r].succeeded_rand = FirstFailing(failRandom)
            /\ run[r].succeeded_method = FirstFailing(failMethod)
            /\ EvaluatedUpTo(run[r].rand_visited, FirstFailing(failRandom))
            /\ EvaluatedUpTo(run[r].method_visited, FirstFailing(failMethod))
            /\ run[r].succeeded_rand <= NUM_PRISONERS
            /\ run[r].succeeded_method <= NUM_PRISONERS
            /\ (run[r].succeeded_rand = NUM_PRISONERS) <=> (failRandom = {})
            /\ (run[r].succeeded_method = NUM_PRISONERS) <=> (failMethod = {})

\* RunRandom stopped at a prisoner who is neither the first nor the last,
\* RunMethod at the first, and with both a later prisoner, who was not
\* evaluated, would have found their number
C8_Witness ==
    /\ NUM_PRISONERS = 4
    /\ Evaluated(0)
    /\ run[0].succeeded_rand \in 1..2
    /\ run[0].succeeded_method = 0
    /\ Len(run[0].method_visited) = 1
    /\ \E p \in Prisoners :
           p > run[0].succeeded_rand /\ FindsRandom(trial[run[0].last].boxes, run[0].last, p)
    /\ \E p \in Prisoners : p > run[0].succeeded_method /\ FindsMethod(Handed(0), p)

(***************************************************************************)
(* C9.  A call of RunRandom or RunMethod leaves the boxes buffer as it     *)
(* was and changes, of the trial's data, only its own succeed counter; so  *)
(* RunMethod reads the permutation RunRandom read.                         *)
(***************************************************************************)
C9_StrategiesKeepBoxes ==
    /\ \A t \in DOMAIN trial : trial[t].method_boxes = trial[t].boxes
    /\ \A r \in DOMAIN run : Evaluated(r) => run[r].boxes = trial[run[r].last].boxes

\* RunRandom returned early and RunMethod then won on the same buffer
C9_Witness ==
    /\ NUM_PRISONERS = 4
    /\ Evaluated(0)
    /\ run[0].succeeded_rand < NUM_PRISONERS
    /\ Len(run[0].rand_visited) < NUM_PRISONERS
    /\ run[0].succeeded_method = NUM_PRISONERS
    /\ trial[run[0].last].boxes # Identity(NUM_BOXES)

(***************************************************************************)
(* C10.  processor_count is all but two of the hardware threads and at     *)
(* least 1 with multithreading, max(h - 2, 1), and 1 without.              *)
(***************************************************************************)
C10_AllButTwoAtLeastOne ==
    pc # "main" =>
        processor_count =
            U32(IF USE_MULTI_THREADING
                THEN (IF hardware_concurrency - 2 > 1 THEN hardware_concurrency - 2 ELSE 1)
                ELSE 1)

====
